---- MODULE Spec2Model ----
(***************************************************************************)
(* IFRS 16 lease accounting: the flat annual script (lease_accounting.py)  *)
(* and the escalation / payment-timing / security-deposit engine (app.py). *)
(*                                                                         *)
(* Money is held in integer cents: every amount the programs store has     *)
(* passed through round(x, 2), or is a difference of two such amounts.     *)
(* Rates are held as the integer percentage typed by the user.  Values     *)
(* that exist in the programs before rounding (the discounted sums, the    *)
(* running escalated rent) are exact rationals, kept as mixed numbers      *)
(* i + n/d with 0 <= n < d so that no intermediate product leaves the      *)
(* 32-bit integer range.                                                   *)
(***************************************************************************)
EXTENDS Integers, Sequences, FiniteSets, TLC

VARIABLES engine, pc, inp, rents, present_value, depreciation,
          opening_liability, opening_rou, year, lease_schedule,
          journal_entries, sd_schedule, pv_sd, sd_opening_balance, stdout

vars == <<engine, pc, inp, rents, present_value, depreciation,
          opening_liability, opening_rou, year, lease_schedule,
          journal_entries, sd_schedule, pv_sd, sd_opening_balance, stdout>>

(***************************************************************************)
(* Bounds of the explored input space.  Amounts are cents, rates whole     *)
(* percentages.  Every rate explored is a multiple of 4% whose 1 + rate    *)
(* has an odd numerator in lowest terms: a discounted sum, an interest     *)
(* amount or an escalated rent then never falls exactly on a half cent,    *)
(* so its binary64 value rounds as its exact value does.  The one division *)
(* that can fall on a half cent, present value / term, is RoundDiv below,  *)
(* which is exact for terms up to 5 (and for 7 and 8).  The script accepts *)
(* a term of -1 or 0, a negative payment and a negative rate as typed.     *)
(***************************************************************************)
MaxYears == 4

ScriptPayments == {-100, 0, 100, 125, 1999}
ScriptRates == {-8, 0, 8, 40, 200}
BaseRents == {0, 100, 12345}
DiscountRates == {0, 8, 200}
EscalationRates == {0, 20}
Deposits == {0, 1000, 250000}
DepositRates == {0, 8, 200}

(***************************************************************************)
(* Exact arithmetic on mixed numbers.                                      *)
(***************************************************************************)
RECURSIVE GCD(_, _)
GCD(a, b) == IF b = 0 THEN a ELSE GCD(b, a % b)

Abs(x) == IF x < 0 THEN -x ELSE x

QNorm(i, n, d) ==
    LET c == n \div d
        r == n % d
        g == GCD(d, r)
    IN  [i |-> i + c, n |-> r \div g, d |-> d \div g]

QInt(c) == [i |-> c, n |-> 0, d |-> 1]

\* x * p / q for integers p >= 0, q > 0
QMulFrac(x, p, q) ==
    LET ip == x.i * p
        q1 == ip \div q
        r1 == ip % q
    IN  QNorm(q1, r1 * x.d + x.n * p, x.d * q)

QNeg(x) == IF x.n = 0 THEN [i |-> -x.i, n |-> 0, d |-> x.d]
           ELSE [i |-> -x.i - 1, n |-> x.d - x.n, d |-> x.d]

QAdd(x, y) ==
    LET g == GCD(x.d, y.d)
        l == x.d * (y.d \div g)
    IN  QNorm(x.i + y.i, x.n * (l \div x.d) + y.n * (l \div y.d), l)

QSub(x, y) == QAdd(x, QNeg(y))

\* x * m for an integer m of any size, 100 at a time
RECURSIVE QMulNat(_, _)
QMulNat(x, m) ==
    IF m < 100 THEN QMulFrac(x, m, 1)
    ELSE QAdd(QMulFrac(QMulNat(x, m \div 100), 100, 1), QMulFrac(x, m % 100, 1))

QMulInt(x, m) == IF m < 0 THEN QNeg(QMulNat(x, -m)) ELSE QMulNat(x, m)

\* x * (p/q)^k, k >= 0
RECURSIVE QMulPow(_, _, _, _)
QMulPow(x, p, q, k) ==
    IF k = 0 THEN x ELSE QMulPow(QMulFrac(x, p, q), p, q, k - 1)

\* x * p / q for an integer p of either sign, p # 0, q > 0
QDivRate(x, p, q) ==
    IF p > 0 THEN QMulFrac(x, q, p) ELSE QMulFrac(QNeg(x), q, -p)

\* Python round() on a value whose binary64 image decides like the exact
\* value: nearest integer, an exact half going to the even neighbour.
QRound(x) ==
    IF 2 * x.n < x.d THEN x.i
    ELSE IF 2 * x.n > x.d THEN x.i + 1
    ELSE IF x.i % 2 = 0 THEN x.i ELSE x.i + 1

(***************************************************************************)
(* 1 + rate/100 as a reduced fraction RateNum(p) / RateDen(p).             *)
(***************************************************************************)
RateNum(p) == (100 + p) \div GCD(100 + p, 100)
RateDen(p) == 100 \div GCD(100 + p, 100)

(***************************************************************************)
(* round(v / n, 2) for a stored amount v of c cents.  v is the binary64    *)
(* nearest to c/100, so when c/n falls exactly on a half cent the result   *)
(* follows the sign of the representation error of v (division by 2 and 4  *)
(* is exact in binary64); only when v is exact does the half go to even.   *)
(***************************************************************************)
RECURSIVE Pow2Mod100(_)
Pow2Mod100(k) == IF k = 0 THEN 1 ELSE (2 * Pow2Mod100(k - 1)) % 100

\* least m >= 0 with c * 2^m >= 100, for 0 < c < 100
RECURSIVE ShiftUp(_)
ShiftUp(c) == IF c >= 100 THEN 0 ELSE 1 + ShiftUp(2 * c)

\* greatest e >= 0 with 100 * 2^e <= c, for c >= 100
RECURSIVE ShiftDown(_)
ShiftDown(c) == IF c < 200 THEN 0 ELSE 1 + ShiftDown(c \div 2)

\* binary exponent of c/100, c > 0
Exponent(c) == IF c >= 100 THEN ShiftDown(c) ELSE -ShiftUp(c)

\* sign of (binary64 nearest to c/100) - c/100
DecErr(c) ==
    IF c = 0 THEN 0
    ELSE LET m == Abs(c)
             r == ((m % 100) * Pow2Mod100(52 - Exponent(m))) % 100
             s == IF r = 0 THEN 0 ELSE IF r < 50 THEN -1 ELSE 1
         IN  IF c < 0 THEN -s ELSE s

RoundDiv(c, n) ==
    LET cc == IF n < 0 THEN -c ELSE c
        x == QMulFrac(QInt(cc), 1, Abs(n))
        e == DecErr(cc)
    IN  IF 2 * x.n # x.d \/ e = 0 THEN QRound(x)
        ELSE IF e > 0 THEN x.i + 1 ELSE x.i

(***************************************************************************)
(* Journal lines and validity of the inputs.                               *)
(***************************************************************************)
Entry(y, a, d, c) == [Year |-> y, Account |-> a, Debit |-> d, Credit |-> c]

RECURSIVE SumDebit(_)
SumDebit(j) == IF j = <<>> THEN 0 ELSE j[1].Debit + SumDebit(Tail(j))

RECURSIVE SumCredit(_)
SumCredit(j) == IF j = <<>> THEN 0 ELSE j[1].Credit + SumCredit(Tail(j))

Term == IF engine = "script" THEN inp.years ELSE inp.lease_term
Payment == IF engine = "script" THEN inp.lease_payment ELSE inp.base_rent

(***************************************************************************)
(* lease_accounting.py                                                     *)
(***************************************************************************)
\* lines 17-20: the value of present_value before it is rounded
ScriptPresentValue(lease_payment, rate, years) ==
    IF rate = 0 THEN QInt(lease_payment * years)
    ELSE LET a == RateNum(rate)
             b == RateDen(rate)
             x == IF years >= 0 THEN QMulPow(QInt(1), b, a, years)
                  ELSE QMulPow(QInt(1), a, b, -years)
         IN  QDivRate(QMulInt(QSub(QInt(1), x), lease_payment),
                      rate \div GCD(Abs(rate), 100), 100 \div GCD(Abs(rate), 100))

\* lines 7-24
S_PresentValue ==
    /\ engine = "script" /\ pc = "pv"
    /\ present_value' = QRound(ScriptPresentValue(inp.lease_payment,
                                   inp.discount_rate_input, inp.years))
    /\ stdout' = Append(stdout, "Present Value of Lease Liability")
    /\ pc' = "dep"
    /\ UNCHANGED <<engine, inp, rents, depreciation, opening_liability,
                   opening_rou, year, lease_schedule, journal_entries,
                   sd_schedule, pv_sd, sd_opening_balance>>

\* line 30: present_value / years raises ZeroDivisionError when years = 0
S_Depreciation ==
    /\ engine = "script" /\ pc = "dep"
    /\ IF inp.years = 0
       THEN /\ pc' = "crashed"
            /\ UNCHANGED depreciation
       ELSE /\ pc' = "init"
            /\ depreciation' = RoundDiv(present_value, inp.years)
    /\ UNCHANGED <<engine, inp, rents, present_value, opening_liability,
                   opening_rou, year, lease_schedule, journal_entries,
                   sd_schedule, pv_sd, sd_opening_balance, stdout>>

\* lines 36-58
S_InitialRecognition ==
    /\ engine = "script" /\ pc = "init"
    /\ opening_liability' = present_value
    /\ opening_rou' = present_value
    /\ lease_schedule' = <<>>
    /\ journal_entries' =
          << Entry(0, "Right of Use Asset", present_value, 0),
             Entry(0, "Lease Liability", 0, present_value) >>
    /\ year' = 1
    /\ pc' = "loop"
    /\ UNCHANGED <<engine, inp, rents, present_value, depreciation,
                   sd_schedule, pv_sd, sd_opening_balance, stdout>>

\* lease_accounting.py line 67, app.py lines 131 and 134
Interest(opening, rate) ==
    IF rate >= 0 THEN QRound(QMulFrac(QInt(opening), rate, 100))
    ELSE QRound(QNeg(QMulFrac(QInt(opening), -rate, 100)))

\* line 68 with the interest left out of the roll-forward
ScriptClosingNoInterest(opening, interest, lease_payment) == opening - lease_payment

\* line 68
ScriptClosing(opening, interest, lease_payment) == opening + interest - lease_payment

\* lines 91-133
ScriptYearEntries(y, interest, lease_payment, dep) ==
    << Entry(y, "Interest Expense", interest, 0),
       Entry(y, "Lease Liability", 0, interest),
       Entry(y, "Lease Liability", lease_payment, 0),
       Entry(y, "Bank", 0, lease_payment),
       Entry(y, "Depreciation Expense", dep, 0),
       Entry(y, "Accumulated Depreciation - ROU", 0, dep) >>

\* lines 64-137, one pass of the loop body
S_Year ==
    /\ engine = "script" /\ pc = "loop" /\ year <= inp.years
    /\ LET interest == Interest(opening_liability, inp.discount_rate_input)
           closing_balance == ScriptClosing(opening_liability, interest, inp.lease_payment)
           closing_rou == opening_rou - depreciation
       IN  /\ lease_schedule' = Append(lease_schedule,
                 [Year |-> year,
                  OpeningLeaseLiability |-> opening_liability,
                  InterestExpense |-> interest,
                  LeasePayment |-> inp.lease_payment,
                  ClosingLeaseLiability |-> closing_balance,
                  OpeningROUAsset |-> opening_rou,
                  Depreciation |-> depreciation,
                  ClosingROUAsset |-> closing_rou])
           /\ journal_entries' = journal_entries \o
                 ScriptYearEntries(year, interest, inp.lease_payment, depreciation)
           /\ opening_liability' = closing_balance
           /\ opening_rou' = closing_rou
    /\ year' = year + 1
    /\ UNCHANGED <<engine, pc, inp, rents, present_value, depreciation,
                   sd_schedule, pv_sd, sd_opening_balance, stdout>>

\* lines 165-174
S_Validate ==
    /\ engine = "script" /\ pc = "loop" /\ year > inp.years
    /\ LET total_debit == SumDebit(journal_entries)
           total_credit == SumCredit(journal_entries)
       IN  stdout' = Append(stdout,
                        IF total_debit = total_credit THEN "Journal is balanced"
                        ELSE "Journal is NOT balanced")
    /\ pc' = "export"
    /\ UNCHANGED <<engine, inp, rents, present_value, depreciation,
                   opening_liability, opening_rou, year, lease_schedule,
                   journal_entries, sd_schedule, pv_sd, sd_opening_balance>>

\* lines 180-188
S_Export ==
    /\ engine = "script" /\ pc = "export"
    /\ stdout' = Append(stdout, "Excel file created successfully with 3 sheets!")
    /\ pc' = "done"
    /\ UNCHANGED <<engine, inp, rents, present_value, depreciation,
                   opening_liability, opening_rou, year, lease_schedule,
                   journal_entries, sd_schedule, pv_sd, sd_opening_balance>>

(***************************************************************************)
(* app.py                                                                  *)
(***************************************************************************)
\* lines 75-80
Interval(escalation_frequency) ==
    IF escalation_frequency = "Every Year" THEN 1
    ELSE IF escalation_frequency = "Every 2 Years" THEN 2
    ELSE 3

\* line 91 with the first comparison slackened to >=
EscalatesFromStart(y, escalation_start, interval) ==
    y >= escalation_start /\ (y - escalation_start - 1) % interval = 0

\* line 91
Escalates(y, escalation_start, interval) ==
    y > escalation_start /\ (y - escalation_start - 1) % interval = 0

\* lines 86-94: rents recorded for years y..lease_term, current_rent being the
\* running (unrounded) rent after year y - 1
RECURSIVE BuildRents(_, _, _, _, _, _)
BuildRents(y, lease_term, current_rent, escalation_rate, escalation_start, interval) ==
    IF y > lease_term THEN <<>>
    ELSE LET r == IF Escalates(y, escalation_start, interval)
                  THEN QMulFrac(current_rent, RateNum(escalation_rate),
                                RateDen(escalation_rate))
                  ELSE current_rent
         IN  <<QRound(r)>> \o BuildRents(y + 1, lease_term, r, escalation_rate,
                                         escalation_start, interval)

\* lines 71-94
A_Rents ==
    /\ engine = "app" /\ pc = "rents"
    /\ rents' = BuildRents(1, inp.lease_term, QInt(inp.base_rent),
                           inp.escalation_rate, inp.escalation_start,
                           Interval(inp.escalation_frequency))
    /\ pc' = "pv"
    /\ UNCHANGED <<engine, inp, present_value, depreciation, opening_liability,
                   opening_rou, year, lease_schedule, journal_entries,
                   sd_schedule, pv_sd, sd_opening_balance, stdout>>

\* lines 100-106: pv after the terms of years y..lease_term are added to acc
RECURSIVE PresentValueSum(_, _, _, _, _)
PresentValueSum(y, rs, rate, payment_timing, acc) ==
    IF y > Len(rs) THEN acc
    ELSE LET k == IF payment_timing = "Beginning of Period" THEN y - 1 ELSE y
             t == QMulPow(QInt(rs[y]), RateDen(rate), RateNum(rate), k)
         IN  PresentValueSum(y + 1, rs, rate, payment_timing, QAdd(acc, t))

\* lines 100-109
A_PresentValue ==
    /\ engine = "app" /\ pc = "pv"
    /\ LET pv == QRound(PresentValueSum(1, rents, inp.discount_rate_input,
                                         inp.payment_timing, QInt(0)))
       IN  /\ present_value' = pv
           /\ depreciation' = RoundDiv(pv, inp.lease_term)
    /\ pc' = "init"
    /\ UNCHANGED <<engine, inp, rents, opening_liability, opening_rou, year,
                   lease_schedule, journal_entries, sd_schedule, pv_sd,
                   sd_opening_balance, stdout>>

\* lines 115-123
A_InitialRecognition ==
    /\ engine = "app" /\ pc = "init"
    /\ opening_liability' = present_value
    /\ opening_rou' = present_value
    /\ lease_schedule' = <<>>
    /\ journal_entries' =
          << Entry(0, "ROU Asset", present_value, 0),
             Entry(0, "Lease Liability", 0, present_value) >>
    /\ year' = 1
    /\ pc' = "loop"
    /\ UNCHANGED <<engine, inp, rents, present_value, depreciation,
                   sd_schedule, pv_sd, sd_opening_balance, stdout>>

\* lines 150-156
AppYearEntries(y, interest, rent, dep) ==
    << Entry(y, "Interest Expense", interest, 0),
       Entry(y, "Lease Liability", rent, 0),
       Entry(y, "Bank", 0, rent),
       Entry(y, "Depreciation Expense", dep, 0),
       Entry(y, "Accumulated Depreciation - ROU", 0, dep) >>

\* lines 129-135 with the beginning-of-period row reporting the balance
\* brought forward instead of the balance after the payment
AppStepBroughtForward(opening, rent, rate, payment_timing) ==
    IF payment_timing = "Beginning of Period"
    THEN LET o == opening - rent
             i == Interest(o, rate)
         IN  [opening |-> opening, interest |-> i, closing |-> o + i]
    ELSE LET i == Interest(opening, rate)
         IN  [opening |-> opening, interest |-> i, closing |-> opening + i - rent]

\* lines 129-135: the liability the row reports as opening, the interest and
\* the closing liability.  Under beginning-of-period timing the reported
\* opening is the unrounded difference of two cent amounts (line 130), held
\* here as its exact value.
AppStep(opening, rent, rate, payment_timing) ==
    IF payment_timing = "Beginning of Period"
    THEN LET o == opening - rent
             i == Interest(o, rate)
         IN  [opening |-> o, interest |-> i, closing |-> o + i]
    ELSE LET i == Interest(opening, rate)
         IN  [opening |-> opening, interest |-> i, closing |-> opening + i - rent]

\* lines 125-159, one pass of the loop body
A_Year ==
    /\ engine = "app" /\ pc = "loop" /\ year <= inp.lease_term
    /\ LET rent == rents[year]
           st == AppStep(opening_liability, rent, inp.discount_rate_input,
                         inp.payment_timing)
           closing_rou == opening_rou - depreciation
       IN  /\ lease_schedule' = Append(lease_schedule,
                 [Year |-> year,
                  OpeningLiability |-> st.opening,
                  RentPayment |-> rent,
                  InterestExpense |-> st.interest,
                  ClosingLiability |-> st.closing,
                  OpeningROU |-> opening_rou,
                  Depreciation |-> depreciation,
                  ClosingROU |-> closing_rou])
           /\ journal_entries' = journal_entries \o
                 AppYearEntries(year, st.interest, rent, depreciation)
           /\ opening_liability' = st.closing
           /\ opening_rou' = closing_rou
    /\ year' = year + 1
    /\ UNCHANGED <<engine, pc, inp, rents, present_value, depreciation,
                   sd_schedule, pv_sd, sd_opening_balance, stdout>>

\* line 172 discounting over one year too few
DepositPresentValueShort(security_deposit, sd_rate, lease_term) ==
    QRound(QMulPow(QInt(security_deposit), RateDen(sd_rate), RateNum(sd_rate),
                   lease_term - 1))

\* line 172
DepositPresentValue(security_deposit, sd_rate, lease_term) ==
    QRound(QMulPow(QInt(security_deposit), RateDen(sd_rate), RateNum(sd_rate),
                   lease_term))

\* lines 167-180 with the deposit's period-0 lines put at the head of the
\* journal instead of appended
A_DepositInitAtHead ==
    /\ engine = "app" /\ pc = "loop" /\ year > inp.lease_term
    /\ inp.security_deposit > 0
    /\ LET pv == DepositPresentValue(inp.security_deposit,
                     inp.sd_discount_rate_input, inp.lease_term)
           sd_diff == inp.security_deposit - pv
       IN  /\ pv_sd' = pv
           /\ journal_entries' =
                 << Entry(0, "Security Deposit (Financial Asset)", pv, 0),
                    Entry(0, "ROU Asset", sd_diff, 0),
                    Entry(0, "Bank", 0, inp.security_deposit) >> \o journal_entries
           /\ sd_opening_balance' = pv
    /\ sd_schedule' = <<>>
    /\ year' = 1
    /\ pc' = "sdloop"
    /\ UNCHANGED <<engine, inp, rents, present_value, depreciation,
                   opening_liability, opening_rou, lease_schedule, stdout>>

\* lines 167-180, entered once the amortisation loop has ended
A_DepositInit ==
    /\ engine = "app" /\ pc = "loop" /\ year > inp.lease_term
    /\ inp.security_deposit > 0
    /\ LET pv == DepositPresentValue(inp.security_deposit,
                     inp.sd_discount_rate_input, inp.lease_term)
           sd_diff == inp.security_deposit - pv
       IN  /\ pv_sd' = pv
           /\ journal_entries' = journal_entries \o
                 << Entry(0, "Security Deposit (Financial Asset)", pv, 0),
                    Entry(0, "ROU Asset", sd_diff, 0),
                    Entry(0, "Bank", 0, inp.security_deposit) >>
           /\ sd_opening_balance' = pv
    /\ sd_schedule' = <<>>
    /\ year' = 1
    /\ pc' = "sdloop"
    /\ UNCHANGED <<engine, inp, rents, present_value, depreciation,
                   opening_liability, opening_rou, lease_schedule, stdout>>

\* lines 182-196, one pass of the loop body
A_DepositYear ==
    /\ engine = "app" /\ pc = "sdloop" /\ year <= inp.lease_term
    /\ LET interest_income == Interest(sd_opening_balance, inp.sd_discount_rate_input)
           closing_balance == sd_opening_balance + interest_income
       IN  /\ sd_schedule' = Append(sd_schedule,
                 [Year |-> year,
                  OpeningBalance |-> sd_opening_balance,
                  InterestAccretion |-> interest_income,
                  ClosingBalance |-> closing_balance])
           /\ journal_entries' = journal_entries \o
                 << Entry(year, "Security Deposit", interest_income, 0),
                    Entry(year, "Interest Income", 0, interest_income) >>
           /\ sd_opening_balance' = closing_balance
    /\ year' = year + 1
    /\ UNCHANGED <<engine, pc, inp, rents, present_value, depreciation,
                   opening_liability, opening_rou, lease_schedule, pv_sd, stdout>>

\* lines 161-241: the tables are shown and exported; the only message the
\* display can add is the note that no deposit was entered
A_Display ==
    /\ engine = "app"
    /\ \/ pc = "loop" /\ year > inp.lease_term /\ inp.security_deposit <= 0
       \/ pc = "sdloop" /\ year > inp.lease_term
    /\ stdout' = IF sd_schedule = <<>>
                 THEN Append(stdout, "No Security Deposit Entered.")
                 ELSE stdout
    /\ pc' = "done"
    /\ UNCHANGED <<engine, inp, rents, present_value, depreciation,
                   opening_liability, opening_rou, year, lease_schedule,
                   journal_entries, sd_schedule, pv_sd, sd_opening_balance>>

(***************************************************************************)
(* Inputs.  The script converts whatever is typed (lines 7-9); the app's   *)
(* widgets only deliver values inside their min_value / max_value range    *)
(* (lines 26-61).                                                          *)
(***************************************************************************)
ScriptInputs ==
    [lease_payment : ScriptPayments, discount_rate_input : ScriptRates,
     years : (-1)..MaxYears]

AppInputs ==
    { r \in [base_rent : BaseRents, discount_rate_input : DiscountRates,
             lease_term : 1..MaxYears,
             payment_timing : {"End of Period", "Beginning of Period"},
             escalation_rate : EscalationRates,
             escalation_frequency : {"Every Year", "Every 2 Years", "Every 3 Years"},
             escalation_start : 0..MaxYears,
             security_deposit : Deposits,
             sd_discount_rate_input : DepositRates] :
        /\ r.escalation_start <= r.lease_term
        /\ r.security_deposit = 0 => r.sd_discount_rate_input = 8 }

\* the worked examples of the specification
EscalationExample ==
    [base_rent |-> 10000000, discount_rate_input |-> 8, lease_term |-> 3,
     payment_timing |-> "End of Period", escalation_rate |-> 5,
     escalation_frequency |-> "Every Year", escalation_start |-> 1,
     security_deposit |-> 0, sd_discount_rate_input |-> 8]

DepositExample ==
    [base_rent |-> 10000000, discount_rate_input |-> 8, lease_term |-> 5,
     payment_timing |-> "End of Period", escalation_rate |-> 0,
     escalation_frequency |-> "Every Year", escalation_start |-> 1,
     security_deposit |-> 10000000, sd_discount_rate_input |-> 8]

Init ==
    /\ \/ engine = "script" /\ inp \in ScriptInputs /\ pc = "pv"
       \/ engine = "app" /\ pc = "rents"
          /\ inp \in AppInputs \cup {EscalationExample, DepositExample}
    /\ rents = <<>>
    /\ present_value = 0
    /\ depreciation = 0
    /\ opening_liability = 0
    /\ opening_rou = 0
    /\ year = 0
    /\ lease_schedule = <<>>
    /\ journal_entries = <<>>
    /\ sd_schedule = <<>>
    /\ pv_sd = 0
    /\ sd_opening_balance = 0
    /\ stdout = <<>>

Next ==
    \/ S_PresentValue
    \/ S_Depreciation
    \/ S_InitialRecognition
    \/ S_Year
    \/ S_Validate
    \/ S_Export
    \/ A_Rents
    \/ A_PresentValue
    \/ A_InitialRecognition
    \/ A_Year
    \/ A_DepositInit
    \/ A_DepositYear
    \/ A_Display

Spec == Init /\ [][Next]_vars

(***************************************************************************)
(* Vocabulary of the properties.                                           *)
(***************************************************************************)
Valid == Payment >= 0 /\ inp.discount_rate_input >= 0 /\ Term >= 1

NoEscalation == engine = "script" \/ inp.escalation_rate = 0

Beginning == engine = "app" /\ inp.payment_timing = "Beginning of Period"

RowOpening(r) == IF engine = "script" THEN r.OpeningLeaseLiability ELSE r.OpeningLiability
RowClosing(r) == IF engine = "script" THEN r.ClosingLeaseLiability ELSE r.ClosingLiability
RowRent(r) == IF engine = "script" THEN r.LeasePayment ELSE r.RentPayment
RowOpeningROU(r) == IF engine = "script" THEN r.OpeningROUAsset ELSE r.OpeningROU
RowClosingROU(r) == IF engine = "script" THEN r.ClosingROUAsset ELSE r.ClosingROU

Printed(msg) == \E i \in 1..Len(stdout) : stdout[i] = msg

IsROUAsset(a) == a \in {"ROU Asset", "Right of Use Asset"}

\* the scheduler has taken all of its periodCount steps
SchedulerDone == Valid /\ Len(lease_schedule) = Term

LastClosing == RowClosing(lease_schedule[Len(lease_schedule)])

\* whole cents in sum over k = 1..n of (1 + rate/100)^k: one cent per period,
\* each compounded at the rate until the end of the term
RECURSIVE CompoundedSum(_, _)
CompoundedSum(n, rate) ==
    IF n = 0 THEN QInt(0)
    ELSE QAdd(CompoundedSum(n - 1, rate),
              QMulPow(QInt(1), RateNum(rate), RateDen(rate), n))

CompoundedCents(n, rate) == CompoundedSum(n, rate).i

\* c is the cent nearest to x
NearestCent(c, x) ==
    \/ c = x.i /\ 2 * x.n <= x.d
    \/ c = x.i + 1 /\ 2 * x.n >= x.d

\* balance of the Lease Liability account: its credits less its debits
RECURSIVE LiabilityBalance(_)
LiabilityBalance(j) ==
    IF j = <<>> THEN 0
    ELSE (IF j[1].Account = "Lease Liability" THEN j[1].Credit - j[1].Debit ELSE 0)
         + LiabilityBalance(Tail(j))

IsPrefix(s, t) == Len(s) <= Len(t) /\ SubSeq(t, 1, Len(s)) = s

(***************************************************************************)
(* C1: for valid parameters without escalation the finished journal has    *)
(* equal debit and credit totals, in both programs.                        *)
(***************************************************************************)
C1_JournalBalanced ==
    (pc = "done" /\ Valid /\ NoEscalation) =>
        SumDebit(journal_entries) = SumCredit(journal_entries)

(***************************************************************************)
(* C2: no run finishes with debit and credit totals that differ and no     *)
(* imbalance warning shown.                                                *)
(***************************************************************************)
C2_ImbalanceWarned ==
    (pc = "done" /\ SumDebit(journal_entries) # SumCredit(journal_entries)) =>
        Printed("Journal is NOT balanced")

(***************************************************************************)
(* C3: a run with invalid parameters never prints a present value, never   *)
(* produces a schedule row or a journal entry, never crashes and never     *)
(* completes.                                                              *)
(***************************************************************************)
C3_InvalidRejected ==
    ~Valid =>
        /\ stdout = <<>>
        /\ lease_schedule = <<>>
        /\ journal_entries = <<>>
        /\ pc \notin {"crashed", "done"}

(***************************************************************************)
(* C4: the finished journal starts with the period-0 pair and then holds,  *)
(* for each period in turn, the six lines interest debit / liability       *)
(* credit, liability debit / bank credit, depreciation debit / accumulated *)
(* depreciation credit, with the amounts of that period's schedule row.    *)
(***************************************************************************)
C4_JournalOrder ==
    (pc = "done" /\ Valid) =>
        /\ Len(journal_entries) >= 2 + 6 * Term
        /\ IsROUAsset(journal_entries[1].Account)
        /\ journal_entries[1] = Entry(0, journal_entries[1].Account, present_value, 0)
        /\ journal_entries[2] = Entry(0, "Lease Liability", 0, present_value)
        /\ \A k \in 1..Term :
              LET b == 2 + 6 * (k - 1)
                  row == lease_schedule[k]
              IN  /\ journal_entries[b + 1] = Entry(k, "Interest Expense", row.InterestExpense, 0)
                  /\ journal_entries[b + 2] = Entry(k, "Lease Liability", 0, row.InterestExpense)
                  /\ journal_entries[b + 3] = Entry(k, "Lease Liability", RowRent(row), 0)
                  /\ journal_entries[b + 4] = Entry(k, "Bank", 0, RowRent(row))
                  /\ journal_entries[b + 5] = Entry(k, "Depreciation Expense", row.Depreciation, 0)
                  /\ journal_entries[b + 6] =
                        Entry(k, "Accumulated Depreciation - ROU", 0, row.Depreciation)

(***************************************************************************)
(* C5: the rent vector has lease_term entries; the entry of year y is the  *)
(* base rent multiplied by (1 + escalation rate) once for every year       *)
(* j <= y with j > escalation_start and (j - escalation_start - 1) mod     *)
(* interval = 0, rounded to cents; years up to escalation_start record the *)
(* base rent; the vector never decreases; and the worked example gives     *)
(* [100000, 105000, 110250].                                               *)
(***************************************************************************)
EscalationCount(y) ==
    Cardinality({ j \in 1..y :
        /\ j > inp.escalation_start
        /\ (j - inp.escalation_start - 1) % Interval(inp.escalation_frequency) = 0 })

C5_RentVector ==
    (engine = "app" /\ pc # "rents") =>
        /\ Len(rents) = inp.lease_term
        /\ \A y \in 1..Len(rents) :
              /\ rents[y] = QRound(QMulPow(QInt(inp.base_rent),
                                RateNum(inp.escalation_rate),
                                RateDen(inp.escalation_rate), EscalationCount(y)))
              /\ y <= inp.escalation_start => rents[y] = inp.base_rent
              /\ y > 1 => rents[y - 1] <= rents[y]
        /\ inp = EscalationExample => rents = <<10000000, 10500000, 11025000>>

C5_Witness ==
    /\ engine = "app" /\ pc = "pv" /\ inp.escalation_start >= 1
    /\ Len(rents) >= 3
    /\ rents[1] = inp.base_rent /\ rents[1] < rents[2] /\ rents[2] < rents[3]

(***************************************************************************)
(* C6: with a deposit, the deposit schedule starts at the deposit          *)
(* discounted over lease_term years and rounded to cents, each year adds   *)
(* the rounded interest on the opening balance, and the last closing       *)
(* balance equals the deposit within rounding (a cent per year, compounded *)
(* at the deposit rate); for 100000 at 8% over 5 years it is within one    *)
(* cent of 100000.                                                         *)
(***************************************************************************)
C6_DepositUnwinds ==
    (engine = "app" /\ inp.security_deposit > 0 /\ pc \in {"sdloop", "done"}) =>
        LET d == inp.security_deposit
            s == inp.sd_discount_rate_input
            n == inp.lease_term
            last == sd_schedule[Len(sd_schedule)].ClosingBalance
        IN  /\ NearestCent(pv_sd, QMulPow(QInt(d), RateDen(s), RateNum(s), n))
            /\ \A k \in 1..Len(sd_schedule) :
                  LET row == sd_schedule[k]
                  IN  /\ row.Year = k
                      /\ row.OpeningBalance =
                            (IF k = 1 THEN pv_sd ELSE sd_schedule[k - 1].ClosingBalance)
                      /\ 2 * Abs(100 * row.InterestAccretion - row.OpeningBalance * s) <= 100
                      /\ row.ClosingBalance = row.OpeningBalance + row.InterestAccretion
            /\ pc = "done" =>
                  /\ Len(sd_schedule) = n
                  /\ Abs(last - d) <= CompoundedCents(n, s)
                  /\ inp = DepositExample => Abs(last - d) <= 1

C6_Witness ==
    /\ engine = "app" /\ pc = "done" /\ inp = DepositExample
    /\ Len(sd_schedule) = 5
    /\ sd_schedule[1].OpeningBalance = 6805832
    /\ sd_schedule[5].ClosingBalance # inp.security_deposit

(***************************************************************************)
(* C7 as stated: for valid flat-rent inputs the last closing liability is  *)
(* at most 0.01 x periodCount away from zero.                              *)
(***************************************************************************)
C7_Original ==
    (SchedulerDone /\ NoEscalation) => Abs(LastClosing) <= Term

(***************************************************************************)
(* C7 amended: for valid flat-rent inputs the last closing liability is    *)
(* zero within 0.01 per period compounded at the discount rate, that is    *)
(* at most 0.01 x sum over k = 1..periodCount of (1 + r)^k.                *)
(***************************************************************************)
C7_Amended ==
    (SchedulerDone /\ NoEscalation) =>
        Abs(LastClosing) <= CompoundedCents(Term, inp.discount_rate_input)

C7_Witness ==
    /\ SchedulerDone /\ NoEscalation
    /\ inp.discount_rate_input > 0 /\ Term >= 2
    /\ Abs(LastClosing) > Term

(***************************************************************************)
(* C8 as stated: rows are numbered 1, 2, ... up to periodCount, the first  *)
(* row opens at the present value and every later row opens, liability and *)
(* ROU alike, at the previous row's closing values, under both timings.    *)
(***************************************************************************)
RowsChain(deducted) ==
    /\ Len(lease_schedule) <= Term
    /\ pc = "done" => Len(lease_schedule) = Term
    /\ \A k \in 1..Len(lease_schedule) :
          LET row == lease_schedule[k]
          IN  /\ row.Year = k
              /\ RowOpening(row) =
                    (IF k = 1 THEN present_value
                     ELSE RowClosing(lease_schedule[k - 1]))
                    - (IF deducted THEN RowRent(row) ELSE 0)
              /\ RowOpeningROU(row) =
                    (IF k = 1 THEN present_value
                     ELSE RowClosingROU(lease_schedule[k - 1]))

C8_Original == Valid => RowsChain(FALSE)

(***************************************************************************)
(* C8 amended: rows are numbered 1, 2, ... up to periodCount and the ROU   *)
(* asset chains from the present value under both timings; the reported    *)
(* opening liability is the previous closing liability (the present value  *)
(* for row 1) under end-of-period timing, and that amount less the row's   *)
(* rent under beginning-of-period timing.                                  *)
(***************************************************************************)
C8_Amended == Valid => RowsChain(Beginning)

C8_Witness ==
    /\ pc = "done" /\ Beginning /\ Len(lease_schedule) >= 2
    /\ lease_schedule[2].RentPayment > 0
    /\ lease_schedule[2].OpeningLiability =
          lease_schedule[1].ClosingLiability - lease_schedule[2].RentPayment

(***************************************************************************)
(* C9: once the postings of periods 0..k are in the journal, the balance   *)
(* of the Lease Liability account equals the closing liability of row k    *)
(* (the present value for k = 0).                                          *)
(***************************************************************************)
C9_LedgerAgrees ==
    journal_entries # <<>> =>
        LiabilityBalance(journal_entries) =
            (IF lease_schedule = <<>> THEN present_value ELSE LastClosing)

(***************************************************************************)
(* C10 as stated: the period index never decreases along the journal.      *)
(***************************************************************************)
C10_Original ==
    \A i \in 1..Len(journal_entries) - 1 :
        journal_entries[i].Year <= journal_entries[i + 1].Year

(***************************************************************************)
(* C10 amended: entries are only ever appended; the period index never     *)
(* decreases along the journal except at the single point where the        *)
(* security deposit's initial recognition starts, after all lease postings *)
(* (so it never decreases in a run without a deposit).                     *)
(***************************************************************************)
OrderedWithinStreams ==
    \A i \in 1..Len(journal_entries) - 1 :
        \/ journal_entries[i].Year <= journal_entries[i + 1].Year
        \/ /\ journal_entries[i + 1].Account = "Security Deposit (Financial Asset)"
           /\ i = 2 + 5 * inp.lease_term

C10_Amended ==
    /\ []OrderedWithinStreams
    /\ [][IsPrefix(journal_entries, journal_entries')]_vars

C10_Witness ==
    /\ pc = "done" /\ engine = "app" /\ inp.security_deposit > 0
    /\ inp.lease_term >= 2
    /\ journal_entries[2 + 5 * inp.lease_term].Year = inp.lease_term
    /\ journal_entries[3 + 5 * inp.lease_term].Year = 0

====
